---------------------------- MODULE Spec2Model ----------------------------
(***************************************************************************)
(* The answer layout engine of upload() in src/app.py: the sanitized       *)
(* solution text is split into answers, every answer is labelled, wrapped  *)
(* greedily under max_width and placed on pages of a HandwrittenPDF, whose *)
(* header() stamps the student name and roll number on every page.         *)
(*                                                                         *)
(* Strings are sequences of one-character strings.  Vertical coordinates   *)
(* and widths are in millimetres, as in the source; the two horizontal     *)
(* anchors are in tenths of a millimetre because number_x is 18.1.         *)
(***************************************************************************)
EXTENDS Integers, Sequences, FiniteSets, TLC

VARIABLES solution,      \* sanitized answer text handed to re.split
          answers,       \* the stripped, non-empty fragments
          pc,            \* position in upload(): idle, split, for_ans, for_word, done
          ai,            \* number of answers the outer for loop has finished
          number,        \* the label counter
          y,             \* vertical cursor
          page,          \* FPDF page counter
          words,         \* ans.split() of the answer being wrapped
          wi,            \* position of the inner for loop in words
          current_line,  \* the line buffer
          instr,         \* pdf.text calls of the layout loop, in drawing order
          headers,       \* pdf.text calls made by header()
          line_height,
          max_width

vars == <<solution, answers, pc, ai, number, y, page, words, wi,
          current_line, instr, headers, line_height, max_width>>

-----------------------------------------------------------------------------
(* Bounds of the explored inputs *)

MaxLen == 5

MaxRepA == 34

MaxRepB == 2

MaxTail == 1

MaxLiveLen == 3

-----------------------------------------------------------------------------
(* Layout constants of upload() and header() *)

line_height0 == 11

max_width0 == 180

margin_x == 300

number_x == 181

top_y == 38

bottom_y_limit == 285

inter_answer_gap == 4

name_y == 17

roll_y == 24

-----------------------------------------------------------------------------
(* Characters and strings *)

Chars == {"a", " ", "\n", "1", "."}

DigitChar == <<"0", "1", "2", "3", "4", "5", "6", "7", "8", "9">>

IsDigit(c) == \E k \in 1..10 : DigitChar[k] = c

IsSpace(c) == c \in {" ", "\n"}

RECURSIVE Strs(_)
Strs(n) ==
    IF n = 0 THEN {<<>>}
    ELSE LET S == Strs(n - 1)
         IN  S \cup {Append(s, c) : s \in {t \in S : Len(t) = n - 1}, c \in Chars}

RECURSIVE Rep(_, _)
Rep(s, n) == IF n = 0 THEN <<>> ELSE s \o Rep(s, n - 1)

\* str(number) for number >= 0
RECURSIVE Str(_)
Str(n) ==
    IF n < 10 THEN <<DigitChar[n + 1]>>
    ELSE Str(n \div 10) \o <<DigitChar[(n % 10) + 1]>>

\* first position >= i0 of s that holds no whitespace (Len(s) + 1 if none)
SkipSpace(s, i0) ==
    LET skip[i \in 1..(Len(s) + 1)] ==
            IF i <= Len(s) /\ IsSpace(s[i]) THEN skip[i + 1] ELSE i
    IN  skip[i0]

\* first position >= i0 of s that holds no digit (Len(s) + 1 if none)
SkipDigits(s, i0) ==
    LET skip[i \in 1..(Len(s) + 1)] ==
            IF i <= Len(s) /\ IsDigit(s[i]) THEN skip[i + 1] ELSE i
    IN  skip[i0]

\* first position >= i0 of s that holds whitespace (Len(s) + 1 if none)
SkipWord(s, i0) ==
    LET skip[i \in 1..(Len(s) + 1)] ==
            IF i <= Len(s) /\ ~IsSpace(s[i]) THEN skip[i + 1] ELSE i
    IN  skip[i0]

\* last position <= Len(s) of s that holds no whitespace (0 if none)
LastNonSpace(s) ==
    LET back[i \in 0..Len(s)] ==
            IF i >= 1 /\ IsSpace(s[i]) THEN back[i - 1] ELSE i
    IN  back[Len(s)]

\* str.strip()
strip(s) == SubSeq(s, SkipSpace(s, 1), LastNonSpace(s))

\* str.split() with no separator: the maximal runs of non-whitespace
split(s) ==
    LET from[i \in 1..(Len(s) + 1)] ==
            LET b == SkipSpace(s, i)
                e == SkipWord(s, b)
            IN  IF b > Len(s) THEN <<>>
                ELSE <<SubSeq(s, b, e - 1)>> \o from[e]
    IN  from[1]

-----------------------------------------------------------------------------
(* re.split(r"\n*\s*\d+\.\s*", solution) and the filter after it *)

\* Position after the match of \n*\s*\d+\.\s* that starts at i, 0 if none
\* starts there.  Every quantifier is greedy and backtracking cannot help:
\* giving up whitespace leaves whitespace where a digit is needed, giving
\* up a digit leaves a digit where the period is needed.
MatchEnd(s, i) ==
    LET d == SkipSpace(s, i)
        p == SkipDigits(s, d)
    IN  IF p > d /\ p <= Len(s) /\ s[p] = "." THEN SkipSpace(s, p + 1) ELSE 0

\* leftmost position >= i0 where a match starts, 0 if none
FindMatch(s, i0) ==
    LET find[i \in 1..(Len(s) + 1)] ==
            IF i > Len(s) THEN 0
            ELSE IF MatchEnd(s, i) # 0 THEN i
            ELSE find[i + 1]
    IN  find[i0]

\* the fragments re.split cuts s into
ReSplit(s) ==
    LET from[f \in 1..(Len(s) + 1)] ==
            LET m == FindMatch(s, f)
            IN  IF m = 0 THEN <<SubSeq(s, f, Len(s))>>
                ELSE <<SubSeq(s, f, m - 1)>> \o from[MatchEnd(s, m)]
    IN  from[1]

StripAll(fs) == [k \in 1..Len(fs) |-> strip(fs[k])]

SegmenterKeepsEmpty(s) == StripAll(ReSplit(s))

Segmenter(s) ==
    StripAll(SelectSeq(ReSplit(s), LAMBDA f : strip(f) # <<>>))

-----------------------------------------------------------------------------
(* The document writer *)

\* FPDF.get_string_width: the sum of the glyph advances of the current
\* font.  The advances are those of a coarse font, so that words of a few
\* characters reach max_width.
CharWidth(c) == IF IsSpace(c) THEN 20 ELSE 50

get_string_width(s) ==
    LET w[n \in 0..Len(s)] == IF n = 0 THEN 0 ELSE w[n - 1] + CharWidth(s[n])
    IN  w[Len(s)]

\* pdf.text(x, y, txt) on the current page
text(x, yy, txt, pg) == [text |-> txt, x |-> x, y |-> yy, page |-> pg]

headerNameOnly(pg) == <<[field |-> "name", y |-> name_y, page |-> pg]>>

\* HandwrittenPDF.header, called by add_page for the page it opens
header(pg) ==
    << [field |-> "name", y |-> name_y, page |-> pg],
       [field |-> "roll", y |-> roll_y, page |-> pg] >>

PageBreakCarry(yy, pg) ==
    IF yy > bottom_y_limit
    THEN [y |-> top_y + (yy - bottom_y_limit), page |-> pg + 1]
    ELSE [y |-> yy, page |-> pg]

PageBreakAtPaperEdge(yy, pg) ==
    IF yy > 297 THEN [y |-> top_y, page |-> pg + 1] ELSE [y |-> yy, page |-> pg]

\* if y > 285: pdf.add_page(); y = 38
PageBreak(yy, pg) ==
    IF yy > bottom_y_limit
    THEN [y |-> top_y, page |-> pg + 1]
    ELSE [y |-> yy, page |-> pg]

\* the pages add_page opened going from page pg to page pg2
NewHeaders(pg, pg2) == IF pg2 > pg THEN header(pg2) ELSE <<>>

NextNumberStuck(n) == n

\* number += 1
NextNumber(n) == n + 1

\* f"{number}."
LabelText(n) == Str(n) \o <<".">>

\* pdf.get_string_width(current_line + word + " ") < max_width
fits(line, word, mw) == get_string_width(line \o word \o <<" ">>) < mw

-----------------------------------------------------------------------------
(* Inputs *)

BlockA == <<"1", ".", "a", "\n">>

BlockB == <<"1", ".", "a", "a", " ", "a", "\n">>

ShortTexts == Strs(MaxLen)

LongTexts ==
    { Rep(BlockA, i) \o Rep(BlockB, j) \o t :
        i \in 0..MaxRepA, j \in 0..MaxRepB, t \in Strs(MaxTail) }

LineHeights == {0 - line_height0, 0, line_height0}

MaxWidths == {0 - max_width0, 0, max_width0}

\* the server is up and no request has come in
Init ==
    /\ solution = <<>>
    /\ line_height = line_height0
    /\ max_width = max_width0
    /\ answers = <<>>
    /\ pc = "idle"
    /\ ai = 0
    /\ number = 0
    /\ y = 0
    /\ page = 0
    /\ words = <<>>
    /\ wi = 1
    /\ current_line = <<>>
    /\ instr = <<>>
    /\ headers = <<>>

-----------------------------------------------------------------------------
(* Steps of upload() *)

\* upload() up to "number = 1": the solution text is there, the PDF is
\* constructed and its first page added, the cursor stands at its top
Solve(texts, lhs, mws) ==
    /\ pc = "idle"
    /\ solution' \in texts
    /\ line_height' \in lhs
    /\ max_width' \in mws
    /\ page' = page + 1
    /\ headers' = headers \o header(page + 1)
    /\ y' = top_y
    /\ number' = 1
    /\ pc' = "split"
    /\ UNCHANGED <<answers, ai, words, wi, current_line, instr>>

\* answers = re.split(...); answers = [ans.strip() for ans in answers if ans.strip()]
Split ==
    /\ pc = "split"
    /\ answers' = Segmenter(solution)
    /\ pc' = "for_ans"
    /\ UNCHANGED <<solution, ai, number, y, page, words, wi, current_line,
                   instr, headers, line_height, max_width>>

\* for ans in answers: draw the number, split the answer into words
DrawLabel ==
    /\ pc = "for_ans"
    /\ ai < Len(answers)
    /\ instr' = Append(instr, text(number_x, y, LabelText(number), page))
    /\ words' = split(answers[ai + 1])
    /\ wi' = 1
    /\ current_line' = <<>>
    /\ pc' = "for_word"
    /\ UNCHANGED <<solution, answers, ai, number, y, page, headers,
                   line_height, max_width>>

\* for word in words: the word fits on the current line
WordFits ==
    /\ pc = "for_word"
    /\ wi <= Len(words)
    /\ fits(current_line, words[wi], max_width)
    /\ current_line' = current_line \o words[wi] \o <<" ">>
    /\ wi' = wi + 1
    /\ UNCHANGED <<solution, answers, pc, ai, number, y, page, words, instr,
                   headers, line_height, max_width>>

WordOverflowDropsWord ==
    /\ pc = "for_word"
    /\ wi <= Len(words)
    /\ ~fits(current_line, words[wi], max_width)
    /\ LET pb == PageBreak(y + line_height, page)
       IN  /\ instr' = Append(instr, text(margin_x, y, strip(current_line), page))
           /\ current_line' = <<>>
           /\ y' = pb.y
           /\ page' = pb.page
           /\ headers' = headers \o NewHeaders(page, pb.page)
    /\ wi' = wi + 1
    /\ UNCHANGED <<solution, answers, pc, ai, number, words,
                   line_height, max_width>>

WordOverflowRetry ==
    /\ pc = "for_word"
    /\ wi <= Len(words)
    /\ ~fits(current_line, words[wi], max_width)
    /\ IF current_line # <<>>
       THEN LET pb == PageBreak(y + line_height, page)
            IN  /\ instr' = Append(instr, text(margin_x, y, strip(current_line), page))
                /\ current_line' = <<>>
                /\ y' = pb.y
                /\ page' = pb.page
                /\ headers' = headers \o NewHeaders(page, pb.page)
       ELSE UNCHANGED <<instr, current_line, y, page, headers>>
    /\ UNCHANGED <<solution, answers, pc, ai, number, words, wi,
                   line_height, max_width>>

\* for word in words: the word does not fit; the buffer is drawn, the cursor
\* advances, the word starts the next line, and a full page is left
WordOverflow ==
    /\ pc = "for_word"
    /\ wi <= Len(words)
    /\ ~fits(current_line, words[wi], max_width)
    /\ LET pb == PageBreak(y + line_height, page)
       IN  /\ instr' = Append(instr, text(margin_x, y, strip(current_line), page))
           /\ current_line' = words[wi] \o <<" ">>
           /\ y' = pb.y
           /\ page' = pb.page
           /\ headers' = headers \o NewHeaders(page, pb.page)
    /\ wi' = wi + 1
    /\ UNCHANGED <<solution, answers, pc, ai, number, words,
                   line_height, max_width>>

EndAnswerChecksBeforeGap ==
    /\ pc = "for_word"
    /\ wi > Len(words)
    /\ LET y1 == IF current_line # <<>> THEN y + line_height ELSE y
           pb == PageBreak(y1, page)
       IN  /\ instr' = IF current_line # <<>>
                       THEN Append(instr, text(margin_x, y, strip(current_line), page))
                       ELSE instr
           /\ y' = PageBreak(pb.y + inter_answer_gap, pb.page).y
           /\ page' = PageBreak(pb.y + inter_answer_gap, pb.page).page
           /\ headers' = headers \o NewHeaders(page, pb.page)
                                 \o NewHeaders(pb.page, page')
    /\ number' = NextNumber(number)
    /\ ai' = ai + 1
    /\ pc' = "for_ans"
    /\ UNCHANGED <<solution, answers, words, wi, current_line,
                   line_height, max_width>>

\* after the words: the rest of the buffer is drawn, then the gap between
\* answers, then the counter, then the page check
EndAnswer ==
    /\ pc = "for_word"
    /\ wi > Len(words)
    /\ LET y1 == IF current_line # <<>> THEN y + line_height ELSE y
           pb == PageBreak(y1 + inter_answer_gap, page)
       IN  /\ instr' = IF current_line # <<>>
                       THEN Append(instr, text(margin_x, y, strip(current_line), page))
                       ELSE instr
           /\ y' = pb.y
           /\ page' = pb.page
           /\ headers' = headers \o NewHeaders(page, pb.page)
    /\ number' = NextNumber(number)
    /\ ai' = ai + 1
    /\ pc' = "for_ans"
    /\ UNCHANGED <<solution, answers, words, wi, current_line,
                   line_height, max_width>>

\* the loop is over: pdf.output and the response
Output ==
    /\ pc = "for_ans"
    /\ ai = Len(answers)
    /\ pc' = "done"
    /\ UNCHANGED <<solution, answers, ai, number, y, page, words, wi,
                   current_line, instr, headers, line_height, max_width>>

Layout == Split \/ DrawLabel \/ WordFits \/ WordOverflow \/ EndAnswer \/ Output

Next == Solve(ShortTexts \cup LongTexts, {line_height0}, {max_width0}) \/ Layout

NextWidth == Solve(ShortTexts, {line_height0}, MaxWidths) \/ Layout

NextLive == Solve(Strs(MaxLiveLen), LineHeights, MaxWidths) \/ Layout

Spec == Init /\ [][Next]_vars

SpecWidth == Init /\ [][NextWidth]_vars

\* upload() is one synchronous call: once entered it runs until it returns
SpecLive == Init /\ [][NextLive]_vars /\ WF_vars(NextLive)

-----------------------------------------------------------------------------
(* Reading the drawn instructions *)

IsLabel(r) == r.x = number_x

IsBody(r) == r.x = margin_x

Labels == SelectSeq(instr, IsLabel)

\* positions of the labels in instr, ascending
LabelPos ==
    SelectSeq([k \in 1..Len(instr) |-> k], LAMBDA k : IsLabel(instr[k]))

\* the instructions drawn after the i-th label and before the next one
BodyOf(i) ==
    LET P == LabelPos
    IN  SubSeq(instr, P[i] + 1, IF i < Len(P) THEN P[i + 1] - 1 ELSE Len(instr))

\* the words of a sequence of instructions, line by line
RECURSIVE WordsOfLines(_)
WordsOfLines(rs) ==
    IF rs = <<>> THEN <<>> ELSE split(Head(rs).text) \o WordsOfLines(Tail(rs))

\* a run of digits starts at i and a period follows it
IsMarkerAt(s, i) ==
    /\ IsDigit(s[i])
    /\ i = 1 \/ ~IsDigit(s[i - 1])
    /\ LET p == SkipDigits(s, i) IN p <= Len(s) /\ s[p] = "."

\* only whitespace stands between the start of i's line and i
AtLineStart(s, i) ==
    \A j \in 1..(i - 1) : (\A k \in j..(i - 1) : s[k] # "\n") => IsSpace(s[j])

LineStartMarkers(s) ==
    {i \in 1..Len(s) : IsMarkerAt(s, i) /\ AtLineStart(s, i)}

\* 1 if non-blank text stands before the first line-start marker, else 0
LeadingText(s) ==
    LET M == LineStartMarkers(s)
        first == IF M = {} THEN Len(s) + 1
                 ELSE CHOOSE i \in M : \A j \in M : i <= j
    IN  IF strip(SubSeq(s, 1, first - 1)) # <<>> THEN 1 ELSE 0

HasMarker(s) == \E i \in 1..(Len(s) - 1) : IsDigit(s[i]) /\ s[i + 1] = "."

-----------------------------------------------------------------------------
(* Claims *)

\* C1: answers are cut only at digits-plus-period markers standing at the
\* start of a line: a marker in the middle of a line splits nothing, so the
\* text yields no more answers than it has line-start markers, plus one for
\* non-blank text before the first of them (blank fragments being dropped).
C1_OnlyLineStartMarkersSplit ==
    pc \notin {"idle", "split"} =>
        Len(answers) <= Cardinality(LineStartMarkers(solution)) + LeadingText(solution)

\* C2 as claimed: when the last line of an answer pushes y past
\* bottom_y_limit the page is changed before the gap is added, so the next
\* label stands on the next page at top_y + inter_answer_gap.
C2_GapAfterPageCheck ==
    \A k \in 1..(Len(instr) - 1) :
        ( /\ IsBody(instr[k])
          /\ IsLabel(instr[k + 1])
          /\ instr[k].y + line_height > bottom_y_limit )
        => /\ instr[k + 1].page = instr[k].page + 1
           /\ instr[k + 1].y = top_y + inter_answer_gap

\* C2 amended: a line that is not the last of its answer is followed by the
\* next line one line_height lower, or at top_y of the next page if that
\* exceeds bottom_y_limit; after the last line of an answer y advances by
\* line_height and by inter_answer_gap and only then is checked, so the next
\* label stands line_height + inter_answer_gap lower, or at exactly top_y of
\* the next page if that exceeds bottom_y_limit; the first line of an
\* answer stands at the y and page of its label.
C2_PageCheckAfterGap ==
    \A k \in 1..(Len(instr) - 1) :
        LET a == instr[k]
            b == instr[k + 1]
        IN  /\ (IsLabel(a)) => (IsBody(b) /\ b.y = a.y /\ b.page = a.page)
            /\ (IsBody(a) /\ IsBody(b)) =>
                   IF a.y + line_height > bottom_y_limit
                   THEN b.y = top_y /\ b.page = a.page + 1
                   ELSE b.y = a.y + line_height /\ b.page = a.page
            /\ (IsBody(a) /\ IsLabel(b)) =>
                   IF a.y + line_height + inter_answer_gap > bottom_y_limit
                   THEN b.y = top_y /\ b.page = a.page + 1
                   ELSE b.y = a.y + line_height + inter_answer_gap /\ b.page = a.page

C2_LastLinePastLimit ==
    \E k \in 1..(Len(instr) - 1) :
        /\ IsBody(instr[k])
        /\ IsLabel(instr[k + 1])
        /\ instr[k].y + line_height > bottom_y_limit
        /\ instr[k + 1].y = top_y

\* C3: for every finished answer the words of its drawn lines, read line by
\* line, are exactly the words of the answer in their order.
C3_WrapKeepsWords ==
    \A i \in 1..ai : WordsOfLines(BodyOf(i)) = split(answers[i])

C3_WrappedAnswer ==
    /\ pc = "done"
    /\ max_width = max_width0
    /\ \E i \in 1..ai :
          /\ Len(BodyOf(i)) = 2
          /\ Len(split(answers[i])) = 3

\* C4: the labels drawn so far are "1.", "2.", ... in this order, one for
\* every answer the loop has reached, whatever number the text carries; the
\* lines drawn under the label of the answer finished last hold the words of
\* the fragment at that position; and when the loop is over there is one
\* label for every fragment kept.
C4_LabelsCountUp ==
    /\ Len(Labels) = ai + (IF pc = "for_word" THEN 1 ELSE 0)
    /\ \A k \in 1..Len(Labels) : Labels[k].text = Str(k) \o <<".">>
    /\ ai >= 1 => LET body == BodyOf(ai)
                  IN  /\ body # <<>>
                      /\ \A k \in 1..Len(body) : IsBody(body[k])
                      /\ WordsOfLines(body) = split(answers[ai])
    /\ pc = "done" => Len(Labels) = Len(answers)

C4_TenLabels ==
    /\ pc = "done"
    /\ Len(answers) >= 10
    /\ Len(Labels) = Len(answers)
    /\ solution[1] = "1"

\* C5: there is no page before the request, so the first page opened is
\* page 1; every step leaves the page counter or adds one to it; a step that
\* changes the page sets y to top_y, a step that keeps the page does not
\* lower y.
C5_CursorMoves ==
    /\ page = 0
    /\ [][ /\ page' = page \/ page' = page + 1
           /\ page' # page => y' = top_y
           /\ page' = page => y' >= y ]_vars

C5_ThirdPage == page = 3 /\ y > top_y

\* C6: every page opened so far carries exactly two header instructions,
\* the name at name_y and the roll number at roll_y, and there are no others.
C6_TwoHeadersPerPage ==
    /\ Len(headers) = 2 * page
    /\ \A p \in 1..page :
          /\ Cardinality({k \in 1..Len(headers) :
                 headers[k] = [field |-> "name", y |-> name_y, page |-> p]}) = 1
          /\ Cardinality({k \in 1..Len(headers) :
                 headers[k] = [field |-> "roll", y |-> roll_y, page |-> p]}) = 1

C6_TrailingEmptyPage ==
    /\ pc = "done"
    /\ page >= 2
    /\ \A k \in 1..Len(instr) : instr[k].page < page
    /\ Len(headers) = 2 * page

\* C7: a text without a digits-plus-period marker yields the one answer that
\* is the text stripped, or no answer if the text is blank.
C7_NoMarkerOneAnswer ==
    (pc \notin {"idle", "split"} /\ ~HasMarker(solution)) =>
        answers = IF strip(solution) = <<>> THEN <<>> ELSE <<strip(solution)>>

C7_TrimmedSingleAnswer ==
    /\ pc \notin {"idle", "split"}
    /\ ~HasMarker(solution)
    /\ Len(answers) = 1
    /\ answers[1] # solution
    /\ \E i \in 1..Len(solution) : IsDigit(solution[i])

\* C8: the layout loop comes to its end, whatever line_height and max_width.
C8_Terminates == <>(pc = "done")

C8_DoneDegenerate ==
    /\ pc = "done"
    /\ line_height <= 0
    /\ max_width <= 0
    /\ Len(instr) >= 4

\* C9: every label and every line is drawn between top_y and bottom_y_limit.
C9_DrawnWithinLimits ==
    \A k \in 1..Len(instr) : top_y <= instr[k].y /\ instr[k].y <= bottom_y_limit

C9_LastRowUsed ==
    /\ \E k \in 1..Len(instr) :
          instr[k].page = 1 /\ instr[k].y + line_height > bottom_y_limit
    /\ \E k \in 1..Len(instr) : instr[k].page = 2

\* C10: every line drawn for an answer holds at least one word.
C10_NoEmptyLine ==
    \A k \in 1..Len(instr) : IsBody(instr[k]) => split(instr[k].text) # <<>>

=============================================================================
